---------------------------- MODULE Spec2Model ----------------------------
(***************************************************************************)
(* A model of the geometric helpers of cadquery_plaground: the hexagon    *)
(* tilers (hex_mesh, meshify, meshify2), find_closest_divisor, the slot   *)
(* tilers (gen_slot_data, slots, slanted_slots), the dome fitter          *)
(* (get_center, get_bottom), knurl, the part families that call them      *)
(* (ScrewCapContainer, Capsule, Adapter, Enclosure) and create_stls.      *)
(*                                                                         *)
(* Every script of the repository is a single-threaded program.  A        *)
(* behaviour of the model is one call of one function: Init draws the     *)
(* function (fn) and its arguments, the actions are the steps of its      *)
(* body, and pc is the position in that body.  The variables of the       *)
(* functions that are not running stay at their idle values.              *)
(*                                                                         *)
(* Arithmetic is exact.  The code computes in floating point with         *)
(* irrational factors (cos 30 deg); the model measures each axis in a     *)
(* unit in which the quantities of that axis are integers, or keeps       *)
(* rationals as <<numerator, denominator>> pairs, and says so at each     *)
(* definition.                                                             *)
(***************************************************************************)
EXTENDS Integers, Sequences, FiniteSets, TLC

VARIABLES
    fn,             \* the function this behaviour runs
    pc,             \* the position in its body
    \* hex_mesh(n, m, r, mesh_th)
    n,              \* columns
    m,              \* rows argument; line 60 rebinds it to 2 * m - 1
    y,              \* loop variable of the outer (row) loop
    x,              \* loop variable of the inner (column) loop
    mesh_points,    \* the list of centers built by the tilers
    \* meshify(base, offset, mesh_th, r) and meshify2(base, offset)
    bbox,           \* base.val().BoundingBox(): [xmin, xmax, ymin, ymax]
    d,              \* the half pitch along x (util.py lines 89, 136)
    xb,             \* the pitch along y (util.py lines 86, 133)
    result,         \* the value returned, "none" before the return
    \* slots(w, h, n, a, ratio) with gen_slot_data(w, h, nh, a), and
    \* slanted_slots(w, h, n, angle, ratio)
    w,              \* the width of the rectangle
    h,              \* the height of the rectangle
    a,              \* the angle argument: None, or the slope it stands for
    ratio,          \* the fill ratio, a rational
    pos,            \* how many of the n points the loop has consumed
    ps,             \* width.ps after the filter, of the latest point
    sk,             \* the slots added to the sketch, in order
    \* get_bottom, knurl and the part families
    args,           \* the arguments of the call, a record
    self,           \* the fields of the object under construction or use
    trace,          \* the calls made so far, in order: <<name, arguments>>
    adapter,        \* the object the module-level name adapter is bound to
    \* create_stls()
    files,          \* the names of the files in the directory stl
    all,            \* the list all: the containers built by this call
    stl_pos,        \* the list pos: their places in the grid
    runs            \* how many calls of create_stls have returned

hexVars == <<n, m>>
loopVars == <<y, x, mesh_points>>
meshVars == <<bbox, d, xb>>

slotVars == <<w, h, a, ratio, pos, ps, sk>>

partVars == <<args, self, trace, adapter>>

stlVars == <<files, all, stl_pos, runs>>

vars == <<fn, pc, hexVars, loopVars, meshVars, result, slotVars, partVars, stlVars>>

\* The variables a function leaves alone: those of the other functions.
notHex == <<meshVars, result, slotVars, partVars, stlVars>>
notMesh == <<hexVars, result, slotVars, partVars, stlVars>>
notFcd == <<loopVars, meshVars, slotVars, partVars, stlVars>>
notSlot == <<m, loopVars, meshVars, result, partVars, stlVars>>
notPart == <<hexVars, loopVars, meshVars, result, slotVars, stlVars>>
notStl == <<hexVars, mesh_points, meshVars, slotVars, args, adapter>>

-----------------------------------------------------------------------------
(* Bounds of the model.                                                    *)

MaxN == 4           \* hex_mesh: n in 1..MaxN
MaxM == 3           \* hex_mesh: m in 1..MaxM
MaxWidth == 9       \* meshify: the box is 2, 4 .. 2 * MaxWidth wide
MaxHeight == 5      \* meshify: the box is 2, 4 .. 2 * MaxHeight high
MaxDividend == 12   \* find_closest_divisor: n in 1..MaxDividend, or 360
MaxTarget == 12     \* find_closest_divisor: m in 1/2, 1 .. MaxTarget
MaxRect == 3        \* slots: w and h in 1..MaxRect
MaxSlots == 3       \* slots: n in 2..MaxSlots
MaxFiles == 3       \* create_stls: at most MaxFiles files exist at the start
MaxRuns == 2        \* create_stls: called MaxRuns times in a row

-----------------------------------------------------------------------------
(* The values of the variables of the functions that are not running.      *)

\* Python's None, where the other values are tuples.
None == <<>>

HexIdle == n = 0 /\ m = 0
LoopIdle == y = 0 /\ x = 0 /\ mesh_points = <<>>
SlotIdle ==
    /\ w = 0 /\ h = 0 /\ a = None /\ ratio = <<1, 1>>
    /\ pos = 0 /\ ps = <<>> /\ sk = <<>>
MeshIdle == bbox = [xmin |-> 0, xmax |-> 0, ymin |-> 0, ymax |-> 0] /\ d = 0 /\ xb = 0
NoResult == result = "none"

PartIdle == args = None /\ self = None /\ trace = <<>> /\ adapter = None
StlIdle == files = {} /\ all = <<>> /\ stl_pos = <<>> /\ runs = 0

HexOthersIdle == MeshIdle /\ NoResult /\ SlotIdle /\ PartIdle /\ StlIdle
MeshOthersIdle == HexIdle /\ NoResult /\ SlotIdle /\ PartIdle /\ StlIdle
FcdOthersIdle == LoopIdle /\ MeshIdle /\ SlotIdle /\ PartIdle /\ StlIdle
SlotOthersIdle == m = 0 /\ LoopIdle /\ MeshIdle /\ NoResult /\ PartIdle /\ StlIdle
PartOthersIdle == HexIdle /\ LoopIdle /\ MeshIdle /\ NoResult /\ SlotIdle /\ StlIdle

-----------------------------------------------------------------------------
(* Helpers.                                                                *)

Abs(k) == IF k < 0 THEN -k ELSE k

\* The set of the elements of a sequence.
Range(s) == {s[i] : i \in 1..Len(s)}

(* Rationals: <<numerator, denominator>> in lowest terms with a positive   *)
(* denominator, so that equal numbers are equal pairs.                     *)
RECURSIVE GCD(_, _)
GCD(p, q) == IF q = 0 THEN p ELSE GCD(q, p % q)

RNorm(num, den) ==
    LET g == GCD(Abs(num), Abs(den))
        sgn == IF den < 0 THEN -1 ELSE 1
    IN  << (sgn * num) \div g, (sgn * den) \div g >>

Rat(k) == <<k, 1>>
RNeg(p) == << -p[1], p[2] >>
\* Sums and products cancel common factors first, to keep the integers small.
RAdd(p, q) ==
    LET g == GCD(p[2], q[2])
    IN  RNorm(p[1] * (q[2] \div g) + q[1] * (p[2] \div g), (p[2] \div g) * q[2])
RSub(p, q) == RAdd(p, RNeg(q))
RMul(p, q) ==
    LET g1 == GCD(Abs(p[1]), q[2])
        g2 == GCD(Abs(q[1]), p[2])
    IN  RNorm((p[1] \div g1) * (q[1] \div g2), (p[2] \div g2) * (q[2] \div g1))
RDiv(p, q) == RNorm(p[1] * q[2], p[2] * q[1])
RLe(p, q) ==
    LET g == GCD(p[2], q[2])
    IN  p[1] * (q[2] \div g) <= q[1] * (p[2] \div g)
RAbs(p) == << Abs(p[1]), p[2] >>

-----------------------------------------------------------------------------
(* hex_mesh, src/enclosure.py lines 58-82.                                 *)
(*                                                                         *)
(* x coordinates are in units of rb / 2 and y coordinates in units of      *)
(* dy / 2, with rb, dx = 1.5 * rb and dy of lines 63-65: in these units    *)
(* rb = 2, dx = 3, dy = 2 and every center is a pair of integers.          *)

hm_rb == 2
hm_dx == 3
hm_dy == 2

\* line 67: w = rb * (3 * n - 1)
hm_w(nn) == hm_rb * (3 * nn - 1)

\* line 68: h = m * dy
hm_h(mm) == mm * hm_dy

\* line 73: the column count of row yy, range(n - 1 if (y % 2 == 1) else n)
hm_row_len_all(yy, nn) == nn
hm_row_len(yy, nn) == IF yy % 2 = 1 THEN nn - 1 ELSE nn

\* line 74: x_s = 0 if (y % 2) == 0 else dx
hm_x_s_none(yy) == 0
hm_x_s(yy) == IF yy % 2 = 0 THEN 0 ELSE hm_dx

\* lines 76-79: the center appended for column xx of row yy
hm_point(xx, yy, nn, mm) ==
    << (xx * 2 * hm_dx) + hm_x_s(yy) - (hm_w(nn) \div 2) + hm_rb,
       (yy * hm_dy) - (hm_h(mm) \div 2) + (hm_dy \div 2) >>

\* The call hex_mesh(n, m) with line 60 executed: m = 2 * m - 1.
HexInit ==
    /\ fn = "hex_mesh"
    /\ pc = "rows"
    /\ n \in 1..MaxN
    /\ \E m0 \in 1..MaxM : m = 2 * m0 - 1
    /\ y = 0
    /\ x = 0
    /\ mesh_points = <<>>
    /\ HexOthersIdle

\* One iteration of the inner loop (lines 73-80): append a center.
HexAppend ==
    /\ fn = "hex_mesh"
    /\ pc = "rows"
    /\ y < m
    /\ x < hm_row_len(y, n)
    /\ mesh_points' = Append(mesh_points, hm_point(x, y, n, m))
    /\ x' = x + 1
    /\ UNCHANGED <<fn, pc, n, m, y, notHex>>

\* The inner loop of row y is exhausted: the outer loop takes the next row.
HexNextRow ==
    /\ fn = "hex_mesh"
    /\ pc = "rows"
    /\ y < m
    /\ x >= hm_row_len(y, n)
    /\ y' = y + 1
    /\ x' = 0
    /\ UNCHANGED <<fn, pc, n, m, mesh_points, notHex>>

\* The outer loop is exhausted: line 82 returns the sketch of mesh_points.
HexReturn ==
    /\ fn = "hex_mesh"
    /\ pc = "rows"
    /\ y >= m
    /\ pc' = "done"
    /\ UNCHANGED <<fn, n, m, y, x, mesh_points, notHex>>

-----------------------------------------------------------------------------
(* meshify and meshify2, src/util.py lines 73-111 and 114-168.             *)
(*                                                                         *)
(* The pitches d and xb are functions of r and mesh_th through cos 30 deg  *)
(* (lines 85-89, 132-136); the loops read only d, xb and the bounding box, *)
(* so the model draws d and xb themselves.  Lengths are even integers in   *)
(* units of 1/4: the halves the code takes (off_x / 2, off_y / 2) are      *)
(* integers, and the literal 0.5 of line 100 is 2.                         *)

mf_half == 2

\* math.ceil(p / q) for p >= 0, q > 0
CeilDivPlusOne(p, q) == (p \div q) + 1
CeilDiv(p, q) == (p + q - 1) \div q

\* (p / q - int(p / q)) * q for p >= 0, q > 0 (lines 138-143): the residual
Residual(p, q) == p - (p \div q) * q

width == bbox.xmax - bbox.xmin
height == bbox.ymax - bbox.ymin

\* lines 96, 150: range(0, math.ceil(xn)) with xn = width / (2 * d)
mf_columns == CeilDiv(width, 2 * d)

\* lines 97, 151: range(0, math.ceil(yn)) with yn = height / xb
mf_rows == CeilDiv(height, xb)

\* lines 98, 152: x_s = 0 if (y % 2) == 0 else d
mf_x_s(yy) == IF yy % 2 = 0 THEN 0 ELSE d

\* lines 99-101: the center meshify appends
meshify_point(xx, yy) ==
    << bbox.xmin + (xx * 2 * d) + mf_x_s(yy),
       bbox.ymin + mf_half + (yy * xb) >>

\* lines 138-143
off_x == Residual(width, 2 * d)
off_y == Residual(height, xb)

\* lines 153-158: the center meshify2 appends
meshify2_point(xx, yy) ==
    << bbox.xmin + (xx * 2 * d) + mf_x_s(yy) + (off_x \div 2),
       bbox.ymin + (yy * xb) + (off_y \div 2) >>

\* The corners (xmin, ymin) the model draws the box at.
Origins == {<<0, 0>>, <<-6, -4>>}

\* The pitches <<d, xb>> the model draws.
Pitches == {<<4, 2>>, <<6, 4>>}

MeshInit ==
    /\ fn \in {"meshify", "meshify2"}
    /\ pc = "columns"
    /\ \E o \in Origins, wd \in 1..MaxWidth, ht \in 1..MaxHeight :
          bbox = [xmin |-> o[1], xmax |-> o[1] + 2 * wd,
                  ymin |-> o[2], ymax |-> o[2] + 2 * ht]
    /\ \E p \in Pitches : d = p[1] /\ xb = p[2]
    /\ x = 0
    /\ y = 0
    /\ mesh_points = <<>>
    /\ MeshOthersIdle

\* One iteration of the inner loop: append the center of column x, row y.
TilerAppend(f, pt) ==
    /\ fn = f
    /\ pc = "columns"
    /\ x < mf_columns
    /\ y < mf_rows
    /\ mesh_points' = Append(mesh_points, pt)
    /\ y' = y + 1
    /\ UNCHANGED <<fn, pc, x, meshVars, notMesh>>

\* The inner loop of column x is exhausted: the outer loop takes the next.
TilerNextColumn(f) ==
    /\ fn = f
    /\ pc = "columns"
    /\ x < mf_columns
    /\ y >= mf_rows
    /\ x' = x + 1
    /\ y' = 0
    /\ UNCHANGED <<fn, pc, mesh_points, meshVars, notMesh>>

\* The outer loop is exhausted: the centers are pushed and cut.
TilerReturn(f) ==
    /\ fn = f
    /\ pc = "columns"
    /\ x >= mf_columns
    /\ pc' = "done"
    /\ UNCHANGED <<fn, loopVars, meshVars, notMesh>>

\* util.py lines 96-101
MeshifyAppend == TilerAppend("meshify", meshify_point(x, y))
MeshifyNextColumn == TilerNextColumn("meshify")
MeshifyReturn == TilerReturn("meshify")

\* util.py lines 150-158
Meshify2Append == TilerAppend("meshify2", meshify2_point(x, y))
Meshify2NextColumn == TilerNextColumn("meshify2")
Meshify2Return == TilerReturn("meshify2")

-----------------------------------------------------------------------------
(* find_closest_divisor, src/screw_cap_container.py lines 15-19.           *)
(*                                                                         *)
(* n is a positive integer and m a real: the model keeps m as the rational *)
(* <<numerator, denominator>>.  The quotients n / i of line 18 are whole   *)
(* numbers, each i being a divisor of n.                                   *)

\* int(np.sqrt(n) + 1) of line 17
IntSqrtPlus1(nn) == (CHOOSE k \in 0..nn : k * k <= nn /\ (k + 1) * (k + 1) > nn) + 1

\* line 17: [i for i in range(1, int(np.sqrt(n) + 1)) if n % i == 0]
RECURSIVE DivisorsFrom(_, _)
DivisorsFrom(i, nn) ==
    IF i >= IntSqrtPlus1(nn) THEN <<>>
    ELSE IF nn % i = 0 THEN <<i>> \o DivisorsFrom(i + 1, nn)
    ELSE DivisorsFrom(i + 1, nn)

divisors(nn) == DivisorsFrom(1, nn)

\* line 18: divisions = n / divisors
divisions(nn) == [i \in 1..Len(divisors(nn)) |-> nn \div divisors(nn)[i]]

\* np.abs(m - k) for the rational mm, as a multiple of 1 / mm[2]
AbsDiff(mm, k) == Abs(mm[1] - k * mm[2])

\* np.argmin: the first index of a least element (1-based here)
ArgMin(s) == CHOOSE i \in 1..Len(s) :
    /\ \A j \in 1..Len(s) : s[i] <= s[j]
    /\ \A j \in 1..(i - 1) : s[j] > s[i]

\* line 19: divisions[np.argmin(np.abs(m - divisions))]
find_closest_divisor(nn, mm) ==
    LET dv == divisions(nn) IN
    dv[ArgMin([i \in 1..Len(dv) |-> AbsDiff(mm, dv[i])])]

\* The call find_closest_divisor(n, m); 360 is the dividend of line 156.
FcdInit ==
    /\ fn = "find_closest_divisor"
    /\ pc = "call"
    /\ n \in (1..MaxDividend) \cup {360}
    /\ \E k \in 1..(2 * MaxTarget) : m = <<k, 2>>
    /\ result = "none"
    /\ FcdOthersIdle

FcdReturn ==
    /\ fn = "find_closest_divisor"
    /\ pc = "call"
    /\ result' = find_closest_divisor(n, m)
    /\ pc' = "done"
    /\ UNCHANGED <<fn, n, m, notFcd>>

-----------------------------------------------------------------------------
(* gen_slot_data and slots, src/util.py lines 171-228.                     *)
(*                                                                         *)
(* Coordinates are rationals.  The angle a enters the code only through    *)
(* ac = tan(radians(a - 90)) (line 175) and the cosine of line 216, so the *)
(* model keeps a given angle as the slope ac it stands for; a = 90 is the  *)
(* slope 0.  Lengths that come out of a square root (math.dist,            *)
(* math.hypot) are kept as their squares.                                  *)

\* lines 174-178: the slope of the slot lines
gs_ac == IF a = None THEN RNorm(-w, h) ELSE a

\* lines 180-181
gs_dy == RNorm(h, n + 1)
gs_dx == RNorm(w, n + 1)

\* line 186: pts[k], k in 0..nh-1
gs_pt(k) ==
    << RSub(RNorm(w, 2), RMul(gs_dx, Rat(k + 1))),
       RSub(RNorm(h, 2), RMul(gs_dy, Rat(k + 1))) >>

\* lines 188-189
find_on_x(pt, xx) == << xx, RAdd(RMul(gs_ac, RSub(xx, pt[1])), pt[2]) >>

\* lines 191-192; the caller has checked that ac is not 0
find_on_y(pt, yy) == << RAdd(pt[1], RDiv(RSub(yy, pt[2]), gs_ac)), yy >>

\* lines 195-200: the four intersections, in the order of the list
gs_candidates(pt) ==
    << find_on_x(pt, RNorm(w, 2)),
       find_on_x(pt, RNorm(-w, 2)),
       find_on_y(pt, RNorm(h, 2)),
       find_on_y(pt, RNorm(-h, 2)) >>

\* lines 204-207: the lambda of the filter
gs_inside_no_floor(pt) ==
    /\ RLe(pt[1], RNorm(w, 2))
    /\ RLe(pt[2], RNorm(h, 2))
    /\ RLe(RNorm(-w, 2), pt[1])
gs_inside(pt) ==
    /\ RLe(pt[1], RNorm(w, 2))
    /\ RLe(pt[2], RNorm(h, 2))
    /\ RLe(RNorm(-w, 2), pt[1])
    /\ RLe(RNorm(-h, 2), pt[2])

\* lines 202-210: ps after the filter
gs_filtered(pt) == SelectSeq(gs_candidates(pt), gs_inside)

\* math.dist(p, q), squared
Dist2(pt, qt) ==
    LET ex == RSub(pt[1], qt[1])
        ey == RSub(pt[2], qt[2])
    IN  RAdd(RMul(ex, ex), RMul(ey, ey))

\* line 213: the midpoint of p and q
Midpoint(pt, qt) ==
    << RDiv(RAdd(pt[1], qt[1]), Rat(2)), RDiv(RAdd(pt[2], qt[2]), Rat(2)) >>

(* lines 215-216: wd = hypot(dx, dy) / 2 * cos(radians(a) - atan(h / w)),  *)
(* squared.  With ac = p / q, q > 0: cos(radians(a)) = -p / sqrt(p^2+q^2), *)
(* sin(radians(a)) = q / sqrt(p^2+q^2), and hypot(dx, dy) times the cosine *)
(* and sine of atan(h / w) are dx and dy, so                               *)
(* wd = (q * dy - p * dx) / (2 * sqrt(p^2 + q^2)).                         *)
gs_wd_sq ==
    LET num == RSub(RMul(Rat(gs_ac[2]), gs_dy), RMul(Rat(gs_ac[1]), gs_dx))
    IN  RDiv(RMul(num, num),
             Rat(4 * (gs_ac[1] * gs_ac[1] + gs_ac[2] * gs_ac[2])))

(* line 226: sk.push([c]).slot(w, sw * ratio, a + 90) with c, w from       *)
(* width(pt): Sketch.slot(w, h, angle) takes the length w along the slot   *)
(* and the height h across it.  The record keeps both squared.             *)
slots_slot_swapped(qs) ==
    [c |-> Midpoint(qs[1], qs[2]),
     w_sq |-> RMul(Dist2(qs[1], qs[2]), RMul(ratio, ratio)),
     h_sq |-> gs_wd_sq,
     angle |-> gs_ac]
slots_slot(qs) ==
    [c |-> Midpoint(qs[1], qs[2]),
     w_sq |-> Dist2(qs[1], qs[2]),
     h_sq |-> RMul(gs_wd_sq, RMul(ratio, ratio)),
     angle |-> gs_ac]

\* The slopes the model draws for a given angle: 0 is a = 90.
Slopes == {<<0, 1>>, <<1, 1>>, <<-1, 1>>, <<-1, 2>>, <<-2, 1>>, <<-1, 3>>, <<3, 2>>}

\* The fill ratios the model draws.
Ratios == {<<1, 1>>, <<1, 2>>, <<3, 4>>}

SlotsInit ==
    /\ fn = "slots"
    /\ pc = "call"
    /\ w \in 1..MaxRect
    /\ h \in 1..MaxRect
    /\ n \in 1..MaxSlots
    /\ a \in {None} \cup Slopes
    /\ ratio \in Ratios
    /\ pos = 0
    /\ ps = <<>>
    /\ sk = <<>>
    /\ SlotOthersIdle

\* slots calls gen_slot_data (line 223), which asserts nh > 1 (line 172)
\* and returns a, wd and the lazy map(width, pts).
SlotsCall ==
    /\ fn = "slots"
    /\ pc = "call"
    /\ pc' = IF n > 1 THEN "loop" ELSE "AssertionError"
    /\ UNCHANGED <<fn, n, slotVars, notSlot>>

(* One iteration of the loop of line 225: the map evaluates width(pt) for  *)
(* the next point, then line 226 adds the slot.  find_on_y divides by ac   *)
(* (line 192) and line 212 indexes ps[0] and ps[1].                        *)
SlotsNext ==
    /\ fn = "slots"
    /\ pc = "loop"
    /\ pos < n
    /\ IF gs_ac[1] = 0
       THEN pc' = "ZeroDivisionError" /\ UNCHANGED <<pos, ps, sk>>
       ELSE /\ ps' = gs_filtered(gs_pt(pos))
            /\ IF Len(ps') < 2
               THEN pc' = "IndexError" /\ UNCHANGED <<pos, sk>>
               ELSE /\ sk' = Append(sk, slots_slot(ps'))
                    /\ pos' = pos + 1
                    /\ pc' = pc
    /\ UNCHANGED <<fn, n, w, h, a, ratio, notSlot>>

\* The map is exhausted: line 228 returns the sketch.
SlotsReturn ==
    /\ fn = "slots"
    /\ pc = "loop"
    /\ pos >= n
    /\ pc' = "done"
    /\ UNCHANGED <<fn, n, slotVars, notSlot>>

-----------------------------------------------------------------------------
(* slanted_slots, src/enclosure.py lines 31-55.                            *)
(*                                                                         *)
(* As for slots, a given angle is kept as the slope it stands for, here    *)
(* tan(radians(angle)) (line 49), and lengths out of a square root as      *)
(* their squares.  rect.intersection(line) is sympy's: the distinct points *)
(* the line shares with the boundary of the rectangle, in sorted order.    *)

\* lines 38-39 and 49: the slope of the slot lines
ss_slope == IF a = None THEN RNorm(w, h) ELSE a

\* line 44: pts[k], k in 0..n-1
ss_pt(k) ==
    << RAdd(RNorm(-w, 2), RMul(RNorm(w, n + 1), Rat(k + 1))),
       RSub(RNorm(h, 2), RMul(RNorm(h, n + 1), Rat(k + 1))) >>

\* line 45: slot_height = hypot(dx, dy) / 2, squared
ss_slot_height_sq == RNorm(w * w + h * h, 4 * (n + 1) * (n + 1))

\* The points of the line through pt on the lines x = xx and y = yy.
ss_on_x(pt, xx) == << xx, RAdd(RMul(ss_slope, RSub(xx, pt[1])), pt[2]) >>
ss_on_y(pt, yy) == << RAdd(pt[1], RDiv(RSub(yy, pt[2]), ss_slope)), yy >>

\* A finite set of points as the sequence sorted by x, then y.
Sorted(S) ==
    CHOOSE sq \in [1..Cardinality(S) -> S] :
        \A j, k \in 1..Cardinality(S) :
            j < k => \/ sq[j][1] # sq[k][1] /\ RLe(sq[j][1], sq[k][1])
                     \/ sq[j][1] = sq[k][1] /\ sq[j][2] # sq[k][2]
                        /\ RLe(sq[j][2], sq[k][2])

\* line 50: ints = rect.intersection(line)
rect_intersection(pt) ==
    LET onX == {ss_on_x(pt, RNorm(w, 2)), ss_on_x(pt, RNorm(-w, 2))}
        onY == IF ss_slope[1] = 0 THEN {}
               ELSE {ss_on_y(pt, RNorm(h, 2)), ss_on_y(pt, RNorm(-h, 2))}
    IN  Sorted({qt \in onX \cup onY : gs_inside(qt)})

\* lines 51-53: m.push([midpoint]).slot(distance, slot_height * ratio, angle)
slanted_slot(qs) ==
    [c |-> Midpoint(qs[1], qs[2]),
     w_sq |-> Dist2(qs[1], qs[2]),
     h_sq |-> RMul(ss_slot_height_sq, RMul(ratio, ratio)),
     angle |-> ss_slope]

\* angle = 0 is falsy (line 38), so a given angle never has the slope 0.
SlantedInit ==
    /\ fn = "slanted_slots"
    /\ pc = "loop"
    /\ w \in 1..MaxRect
    /\ h \in 1..MaxRect
    /\ n \in 1..MaxSlots
    /\ a \in {None} \cup (Slopes \ {<<0, 1>>})
    /\ ratio \in Ratios
    /\ pos = 0
    /\ ps = <<>>
    /\ sk = <<>>
    /\ SlotOthersIdle

\* One iteration of the loop of lines 48-53; ps holds ints.
SlantedNext ==
    /\ fn = "slanted_slots"
    /\ pc = "loop"
    /\ pos < n
    /\ ps' = rect_intersection(ss_pt(pos))
    /\ IF Len(ps') < 2
       THEN pc' = "IndexError" /\ UNCHANGED <<pos, sk>>
       ELSE /\ sk' = Append(sk, slanted_slot(ps'))
            /\ pos' = pos + 1
            /\ pc' = pc
    /\ UNCHANGED <<fn, n, w, h, a, ratio, notSlot>>

\* The loop is exhausted: line 55 returns the sketch.
SlantedReturn ==
    /\ fn = "slanted_slots"
    /\ pc = "loop"
    /\ pos >= n
    /\ pc' = "done"
    /\ UNCHANGED <<fn, n, slotVars, notSlot>>

-----------------------------------------------------------------------------
(* get_center and get_bottom, src/util.py lines 6-32.                      *)
(*                                                                         *)
(* Numbers are rationals.  A call of the geometry kernel (cadquery) or of  *)
(* the thread generator is an entry <<name, arguments>> of trace: what the *)
(* kernel does with its arguments is outside the repository.  A function   *)
(* is the record [raised, trace] of the exception it raises ("" for none)  *)
(* and of the calls it makes before.                                       *)

\* The outcome of making the calls ops, none of which raises.
Did(ops) == [raised |-> "", trace |-> ops]

\* The outcome of raising the exception e.
Raise(e) == [raised |-> e, trace |-> <<>>]

\* The outcome of o1 followed, unless o1 raises, by o2.
Then(o1, o2) ==
    IF o1.raised # "" THEN o1
    ELSE [raised |-> o2.raised, trace |-> o1.trace \o o2.trace]

\* A step of a method: the calls of out are made, and the method goes on at
\* nextpc unless out raises.
Step(out, nextpc) ==
    /\ trace' = trace \o out.trace
    /\ pc' = IF out.raised = "" THEN nextpc ELSE out.raised

\* line 13 divides by p1y - p2y
get_center_raises(p1, p2) == p1[2] = p2[2]

\* lines 7-16
get_center(p1, p2) ==
    LET mx == RDiv(RAdd(p1[1], p2[1]), Rat(2))
        my == RDiv(RAdd(p1[2], p2[2]), Rat(2))
        ga == RDiv(RNeg(RSub(p1[1], p2[1])), RSub(p1[2], p2[2]))
    IN  RSub(my, RMul(ga, mx))

\* line 20: r = -get_center((0, dent), (diameter / 2, height)) + dent
gb_r_no_dent(dent, diameter, ht) ==
    RNeg(get_center(<<Rat(0), dent>>, <<RDiv(diameter, Rat(2)), ht>>))
gb_r(dent, diameter, ht) ==
    RAdd(RNeg(get_center(<<Rat(0), dent>>, <<RDiv(diameter, Rat(2)), ht>>)), dent)

\* lines 19-32
get_bottom_cylinder_at_origin(dent, diameter, ht) ==
    IF get_center_raises(<<Rat(0), dent>>, <<RDiv(diameter, Rat(2)), ht>>)
    THEN [raised |-> "ZeroDivisionError", trace |-> <<>>]
    ELSE [raised |-> "",
          trace |-> << <<"sphere", gb_r(dent, diameter, ht)>>,
                       <<"translate", RAdd(RNeg(gb_r(dent, diameter, ht)), dent)>>,
                       <<"cylinder", RMul(Rat(2), dent), RDiv(diameter, Rat(2))>>,
                       <<"translate", Rat(0)>>,
                       <<"intersect">> >>]
get_bottom(dent, diameter, ht) ==
    IF get_center_raises(<<Rat(0), dent>>, <<RDiv(diameter, Rat(2)), ht>>)
    THEN [raised |-> "ZeroDivisionError", trace |-> <<>>]
    ELSE [raised |-> "",
          trace |-> << <<"sphere", gb_r(dent, diameter, ht)>>,
                       <<"translate", RAdd(RNeg(gb_r(dent, diameter, ht)), dent)>>,
                       <<"cylinder", RMul(Rat(2), dent), RDiv(diameter, Rat(2))>>,
                       <<"translate", dent>>,
                       <<"intersect">> >>]

\* The arguments the model draws for get_bottom.
Dents == {<<-1, 1>>, <<0, 1>>, <<3, 2>>, <<4, 1>>, <<9, 1>>, <<10, 1>>}
Diameters == {<<-18, 1>>, <<0, 1>>, <<18, 1>>}
ShellHeights == {<<0, 1>>, <<3, 2>>}

GetBottomInit ==
    /\ fn = "get_bottom"
    /\ pc = "call"
    /\ args \in [dent : Dents, diameter : Diameters, height : ShellHeights]
    /\ self = None
    /\ trace = <<>>
    /\ adapter = None
    /\ PartOthersIdle

\* The call get_bottom(dent, diameter, height).
GetBottomCall ==
    /\ fn = "get_bottom"
    /\ pc = "call"
    /\ LET out == get_bottom(args.dent, args.diameter, args.height) IN
          /\ trace' = out.trace
          /\ pc' = IF out.raised = "" THEN "done" ELSE out.raised
    /\ UNCHANGED <<fn, args, self, adapter, notPart>>

-----------------------------------------------------------------------------
(* knurl, src/util.py lines 35-61.                                         *)

(* The cosine of cut_angle / 2 of line 37 for the cut angles of the model: *)
(* 1/2 for 120 degrees and, to one place, 0.7 for 90 degrees.              *)
CosHalf(cut_angle) ==
    CASE cut_angle = 90 -> <<7, 10>>
      [] cut_angle = 120 -> <<1, 2>>

(* fillet(point_radius) of line 51 replaces the corner of the half-angle   *)
(* cut_angle / 2 by an arc whose nearest point is                          *)
(* point_radius * (1 / sin(cut_angle / 2) - 1) from the corner, along the  *)
(* bisector: to two places 0.41 for 90 degrees and 0.15 for 120.           *)
FilletSetback(cut_angle) ==
    CASE cut_angle = 90 -> <<41, 100>>
      [] cut_angle = 120 -> <<3, 20>>

\* lines 36-37: x1 = length * cos(radians(cut_angle / 2)), length = 2 * cut_depth
kn_x1(cut_angle, cut_depth) == RMul(RMul(Rat(2), cut_depth), CosHalf(cut_angle))

\* line 38: y1 = length * sin(radians(cut_angle / 2)), squared
kn_y1_sq(cut_angle, cut_depth) ==
    RSub(RMul(Rat(4), RMul(cut_depth, cut_depth)),
         RMul(kn_x1(cut_angle, cut_depth), kn_x1(cut_angle, cut_depth)))

(* lines 41-52: the x of the innermost point of the profile in the frame   *)
(* of its location.  The triangle (0, 0), (x1, y1), (x1, -y1) is assembled *)
(* at the pushed point (-cut_depth, 0) (lines 43-48); a point_radius that  *)
(* is neither None nor 0 rounds the vertex of the least x (lines 50-51).   *)
kn_apex_x_not_pushed(cut_angle, cut_depth, point_radius) ==
    IF point_radius # None /\ point_radius # Rat(0)
    THEN RMul(point_radius, FilletSetback(cut_angle))
    ELSE Rat(0)
kn_apex_x(cut_angle, cut_depth, point_radius) ==
    IF point_radius # None /\ point_radius # Rat(0)
    THEN RAdd(RNeg(cut_depth), RMul(point_radius, FilletSetback(cut_angle)))
    ELSE RNeg(cut_depth)

(* line 54: s1 = cq.Sketch().parray(radius, 0, 360, n).each(doprofile).    *)
(* parray places n locations on the circle of the radius, 360 / n degrees  *)
(* apart from 0 and turned to face outwards; doprofile moves the profile   *)
(* to each.  A profile is kept as its angle, the distance apex of its      *)
(* innermost point from the axis along the ray of that angle, and its two  *)
(* other vertices as their distance base_x along that ray and the square   *)
(* base_y_sq of their distance from it.                                    *)
knurl_profiles(radius, cut_angle, cut_depth, cnt, point_radius) ==
    [k \in 1..cnt |->
        [angle |-> RNorm(360 * (k - 1), cnt),
         apex |-> RAdd(radius, kn_apex_x(cut_angle, cut_depth, point_radius)),
         base_x |-> RAdd(radius, RSub(kn_x1(cut_angle, cut_depth), cut_depth)),
         base_y_sq |-> kn_y1_sq(cut_angle, cut_depth)]]

\* lines 36-61: no argument is checked; the sketch s1 is the array of n
\* profiles at the radius, twist-extruded both ways, united and cut.
knurl(ht, radius, cut_angle, cut_depth, angle, cnt, point_radius) ==
    [raised |-> "",
     trace |-> << <<"parray", radius, 0, 360, cnt>>,
                  <<"each", knurl_profiles(radius, cut_angle, cut_depth, cnt,
                                           point_radius)>>,
                  <<"twistExtrude", ht, angle>>,
                  <<"twistExtrude", ht, -angle>>,
                  <<"union">>,
                  <<"cut">> >>]

\* The point radii the model draws for knurl.
PointRadii == {None, <<0, 1>>, <<1, 16>>}

\* The arguments the model draws for knurl.
Radii == {<<1, 2>>, <<9, 1>>}
CutDepths == {<<3, 16>>, <<1, 2>>, <<9, 1>>, <<10, 1>>}
Counts == {1, 2, 3, 20}

KnurlInit ==
    /\ fn = "knurl"
    /\ pc = "call"
    /\ args \in [height : {<<60, 1>>}, radius : Radii, cut_angle : {90, 120},
                 cut_depth : CutDepths, angle : {40, 180}, n : Counts,
                 point_radius : PointRadii]
    /\ self = None
    /\ trace = <<>>
    /\ adapter = None
    /\ PartOthersIdle

\* The call knurl(obj, height, radius, cut_angle, cut_depth, angle, n,
\* point_radius).
KnurlCall ==
    /\ fn = "knurl"
    /\ pc = "call"
    /\ LET out == knurl(args.height, args.radius, args.cut_angle,
                        args.cut_depth, args.angle, args.n,
                        args.point_radius) IN
          /\ trace' = out.trace
          /\ pc' = IF out.raised = "" THEN "done" ELSE out.raised
    /\ UNCHANGED <<fn, args, self, adapter, notPart>>

-----------------------------------------------------------------------------
(* Calls of the functions of the repository from the part families: the    *)
(* call is an entry of trace, followed by the calls it makes.              *)

CallGetCenter(p1, p2) ==
    Then(Did(<< <<"get_center", p1, p2>> >>),
         IF get_center_raises(p1, p2) THEN Raise("ZeroDivisionError") ELSE Did(<<>>))

CallGetBottom(dent, diameter, ht) ==
    Then(Did(<< <<"get_bottom", dent, diameter, ht>> >>),
         get_bottom(dent, diameter, ht))

CallKnurl(ht, radius, cut_angle, cut_depth, angle, cnt) ==
    Then(Did(<< <<"knurl", ht, radius, cut_angle, cut_depth, angle, cnt>> >>),
         knurl(ht, radius, cut_angle, cut_depth, angle, cnt, None))

(* IsoThread is cq_warehouse's.  Its min_radius is the major radius less   *)
(* the thread depth 5 * sqrt(3) / 16 * pitch, for which the model takes    *)
(* 13 / 24 * pitch.                                                        *)
IsoThread(major_diameter, pitch, length) ==
    Did(<< <<"IsoThread", major_diameter, pitch, length>> >>)

min_radius(major_diameter, pitch) ==
    RSub(RDiv(major_diameter, Rat(2)), RMul(<<13, 24>>, pitch))

-----------------------------------------------------------------------------
(* ScrewCapContainer, src/screw_cap_container.py lines 22-159.             *)

\* lines 45-52: the assertions of the constructor
ScAccepts(kw) ==
    /\ ~RLe(kw.innerDiameter, Rat(0))
    /\ ~RLe(kw.wallThickness, Rat(0))
    /\ ~RLe(kw.innerHeight, Rat(0))
    /\ ~RLe(kw.capHeight, Rat(0))
    /\ RLe(Rat(0), kw.dent)
    /\ RLe(kw.dent, RDiv(kw.innerDiameter, Rat(2)))
    /\ ~RLe(RAdd(kw.innerHeight, kw.wallThickness),
            RSub(kw.capHeight, kw.wallThickness))

\* lines 54-63: the fields of the object
ScFields(kw) ==
    [innerDiameter |-> kw.innerDiameter,
     wallThickness |-> kw.wallThickness,
     innerHeight |-> kw.innerHeight,
     capHeight |-> kw.capHeight,
     dent |-> kw.dent,
     threadClearance |-> kw.threadClearance,
     turns |-> kw.turns,
     knurledCap |-> kw.knurledCap,
     threadPitch |-> RDiv(RSub(kw.capHeight, kw.wallThickness), Rat(kw.turns + 1)),
     capOffset |-> RSub(RAdd(kw.innerHeight, RMul(Rat(2), kw.wallThickness)),
                        kw.capHeight)]

\* lines 66-91: the container, flat or with a dome
ScBody(o) ==
    IF o.dent = Rat(0)
    THEN Did(<< <<"cylinder", RAdd(o.innerHeight, o.wallThickness),
                  RAdd(RDiv(o.innerDiameter, Rat(2)), o.wallThickness)>>,
                <<"shell", RNeg(o.wallThickness)>> >>)
    ELSE Then(Did(<< <<"circle", RAdd(RDiv(o.innerDiameter, Rat(2)), o.wallThickness)>>,
                     <<"circle", RDiv(o.innerDiameter, Rat(2))>>,
                     <<"extrude", RAdd(o.innerHeight, o.wallThickness)>> >>),
         Then(CallGetCenter(<<Rat(0), o.dent>>,
                            <<RDiv(o.innerDiameter, Rat(2)), o.wallThickness>>),
         Then(CallGetBottom(o.dent, o.innerDiameter, o.wallThickness),
         Then(CallGetBottom(RSub(o.dent, o.wallThickness), o.innerDiameter, Rat(0)),
              Did(<< <<"cut">>, <<"union">> >>)))))

\* lines 93-106: major_diam after line 104
ScMajorDiam(o) ==
    LET md == RAdd(o.innerDiameter, RMul(Rat(3), o.wallThickness))
        mr == min_radius(RSub(md, RDiv(o.threadClearance, Rat(2))), o.threadPitch)
    IN  RAdd(md, RMul(Rat(2),
             RSub(RAdd(RDiv(o.innerDiameter, Rat(2)), o.wallThickness), mr)))

\* lines 93-145: the threads and the cap
ScThreads(o) ==
    LET md0 == RAdd(o.innerDiameter, RMul(Rat(3), o.wallThickness))
        half == RDiv(o.threadClearance, Rat(2))
        len == RSub(o.capHeight, o.wallThickness)
    IN  Then(IsoThread(RSub(md0, half), o.threadPitch, len),
        Then(IsoThread(RSub(ScMajorDiam(o), half), o.threadPitch, len),
        Then(IsoThread(RAdd(ScMajorDiam(o), half), o.threadPitch,
                       RSub(len, o.threadPitch)),
             Did(<< <<"translate", o.capOffset>>,
                    <<"union">>,
                    <<"cylinder", o.capHeight,
                      RAdd(RDiv(ScMajorDiam(o), Rat(2)), o.wallThickness)>>,
                    <<"shell", RNeg(o.wallThickness)>>,
                    <<"translate", RDiv(o.threadPitch, Rat(2))>>,
                    <<"union">>,
                    <<"fillet", o.wallThickness>> >>))))

(* line 148: angle = 2 * math.degrees(math.asin(2 * 4 / innerDiameter)),   *)
(* to 1/100 of a degree, for the diameters the model draws; math.asin      *)
(* raises ValueError outside [-1, 1], that is for a diameter below 8.      *)
ScKnurlAngle(dia) ==
    CASE dia = <<8, 1>> -> <<180, 1>>
      [] dia = <<16, 1>> -> <<60, 1>>
      [] dia = <<15, 1>> -> <<3223, 50>>
      [] dia = <<20, 1>> -> <<1179, 25>>
      [] dia = <<25, 1>> -> <<3733, 100>>
      [] dia = <<30, 1>> -> <<3093, 100>>
      [] dia = <<35, 1>> -> <<2643, 100>>
      [] dia = <<40, 1>> -> <<2307, 100>>
      [] dia = <<45, 1>> -> <<512, 25>>
      [] dia = <<50, 1>> -> <<1841, 100>>
      [] dia = <<55, 1>> -> <<1673, 100>>
      [] dia = <<60, 1>> -> <<383, 25>>
      [] dia = <<65, 1>> -> <<707, 50>>
      [] dia = <<70, 1>> -> <<328, 25>>
      [] dia = <<75, 1>> -> <<49, 4>>
      [] dia = <<80, 1>> -> <<287, 25>>
      [] dia = <<85, 1>> -> <<54, 5>>
      [] dia = <<90, 1>> -> <<51, 5>>
      [] dia = <<95, 1>> -> <<483, 50>>
      [] dia = <<100, 1>> -> <<459, 50>>

\* line 156: 360 // int(find_closest_divisor(360, angle))
ScKnurlCount(dia) == 360 \div find_closest_divisor(360, ScKnurlAngle(dia))

\* lines 147-157
ScKnurl(o) ==
    IF ~o.knurledCap THEN Did(<<>>)
    ELSE IF ~RLe(Rat(8), o.innerDiameter) THEN Raise("ValueError")
    ELSE Then(Did(<< <<"find_closest_divisor", 360, ScKnurlAngle(o.innerDiameter)>> >>),
              CallKnurl(o.capHeight,
                        RAdd(RDiv(ScMajorDiam(o), Rat(2)), o.wallThickness),
                        120, RDiv(o.wallThickness, Rat(3)), 40,
                        ScKnurlCount(o.innerDiameter)))

\* The arguments the model draws for the constructor.
ScArgs ==
    [innerDiameter : {<<0, 1>>, <<6, 1>>, <<8, 1>>, <<16, 1>>, <<40, 1>>, <<100, 1>>},
     wallThickness : {<<0, 1>>, <<3, 2>>, <<2, 1>>},
     innerHeight : {<<0, 1>>, <<50, 1>>},
     capHeight : {<<0, 1>>, <<1, 1>>, <<10, 1>>, <<60, 1>>},
     dent : {<<-1, 1>>, <<0, 1>>, <<1, 1>>, <<2, 1>>, <<5, 1>>, <<25, 1>>},
     threadClearance : {<<3, 5>>},
     turns : {3},
     knurledCap : BOOLEAN]

ScInit ==
    /\ fn = "ScrewCapContainer"
    /\ pc = "__init__"
    /\ args \in ScArgs
    /\ self = None
    /\ trace = <<>>
    /\ adapter = None
    /\ PartOthersIdle

\* ScrewCapContainer(...): lines 45-63
ScConstruct ==
    /\ fn = "ScrewCapContainer"
    /\ pc = "__init__"
    /\ IF ScAccepts(args)
       THEN self' = ScFields(args) /\ pc' = "make"
       ELSE self' = self /\ pc' = "AssertionError"
    /\ UNCHANGED <<fn, args, trace, adapter, notPart>>

\* make(), lines 66-91
ScMakeBody ==
    /\ fn = "ScrewCapContainer"
    /\ pc = "make"
    /\ Step(ScBody(self), "threads")
    /\ UNCHANGED <<fn, args, self, adapter, notPart>>

\* make(), lines 93-145
ScMakeThreads ==
    /\ fn = "ScrewCapContainer"
    /\ pc = "threads"
    /\ Step(ScThreads(self), "knurl")
    /\ UNCHANGED <<fn, args, self, adapter, notPart>>

\* make(), lines 147-159
ScMakeKnurl ==
    /\ fn = "ScrewCapContainer"
    /\ pc = "knurl"
    /\ Step(ScKnurl(self), "done")
    /\ UNCHANGED <<fn, args, self, adapter, notPart>>

-----------------------------------------------------------------------------
(* Capsule, src/edc_capsule.py lines 11-174.                               *)

\* lines 40-41
threadHeight == <<5, 1>>
CapThreadClearance == <<3, 5>>

\* lines 45-46: the assertions of the constructor
CapAccepts(kw) ==
    /\ ~RLe(kw.height, threadHeight)
    /\ RLe(<<3, 2>>, kw.wallThickness)

\* lines 33-43: the fields of the object
CapFields(kw) ==
    [innerDiameter |-> kw.innerDiameter,
     wallThickness |-> kw.wallThickness,
     outerDiameter |-> RAdd(kw.innerDiameter, RMul(Rat(2), kw.wallThickness)),
     height |-> kw.height,
     capHeight |-> RDiv(kw.height, Rat(6)),
     dent |-> kw.dent,
     turns |-> kw.turns,
     threadHeight |-> threadHeight,
     threadClearance |-> CapThreadClearance,
     threadPitch |-> RDiv(threadHeight, Rat(kw.turns)),
     knurled |-> kw.knurled]

\* lines 49-59: the body and the cover
CapCover(o) ==
    Then(Did(<< <<"circle", RDiv(o.outerDiameter, Rat(2))>>,
                <<"circle", RDiv(o.innerDiameter, Rat(2))>>,
                <<"extrude", o.height>> >>),
    Then(CallGetBottom(RAdd(o.dent, o.wallThickness), o.outerDiameter, o.wallThickness),
    Then(CallGetBottom(o.dent, o.innerDiameter, Rat(0)),
         Did(<< <<"cut">> >>))))

\* make_handle, lines 139-171: r of lines 158-165
mh_r(o) ==
    RAdd(RAdd(RNeg(get_center(<<Rat(0), RAdd(o.dent, o.wallThickness)>>,
                              <<RDiv(o.outerDiameter, Rat(2)), o.wallThickness>>)),
              o.dent), o.wallThickness)

\* lines 61-69 with make_handle, lines 139-171
CapHandle(o) ==
    Then(Did(<< <<"ellipse">>, <<"sweep">> >>),
    Then(CallGetCenter(<<Rat(0), RAdd(o.dent, o.wallThickness)>>,
                       <<RDiv(o.outerDiameter, Rat(2)), o.wallThickness>>),
         Did(<< <<"sphere", mh_r(o)>>,
                <<"translate", RAdd(RNeg(mh_r(o)), o.dent)>>,
                <<"cut">>,
                <<"translate", RAdd(o.height, o.wallThickness)>>,
                <<"mirror">>, <<"union">>,
                <<"translate", o.wallThickness>>, <<"union">>,
                <<"translate", o.height>>, <<"union">> >>)))

\* lines 71-137: the knurl, the split and the threads
CapKnurlThreads(o) ==
    LET md == RSub(o.outerDiameter, RMul(Rat(2), RDiv(o.wallThickness, Rat(3))))
        half == RDiv(o.threadClearance, Rat(2))
    IN  Then(IF o.knurled
             THEN Then(Did(<< <<"translate", o.dent>> >>),
                  Then(CallKnurl(RAdd(o.height, RMul(Rat(4), o.wallThickness)),
                                 RDiv(o.outerDiameter, Rat(2)), 90,
                                 RDiv(o.wallThickness, Rat(8)), 180, 20),
                       Did(<< <<"translate", RNeg(o.dent)>> >>)))
             ELSE Did(<<>>),
        Then(Did(<< <<"split">>, <<"split">> >>),
        Then(IsoThread(RSub(md, half), o.threadPitch, o.threadHeight),
        Then(IsoThread(RAdd(md, half), o.threadPitch,
                       RSub(o.threadHeight, o.threadPitch)),
             Did(<< <<"cut">>, <<"union">>, <<"union">> >>)))))

\* The arguments the model draws for the constructor.
CapArgs ==
    [innerDiameter : {<<15, 1>>},
     wallThickness : {<<1, 1>>, <<3, 2>>},
     height : {<<4, 1>>, <<60, 1>>},
     dent : {<<0, 1>>, <<4, 1>>},
     turns : {6},
     knurled : BOOLEAN]

CapInit ==
    /\ fn = "Capsule"
    /\ pc = "__init__"
    /\ args \in CapArgs
    /\ self = None
    /\ trace = <<>>
    /\ adapter = None
    /\ PartOthersIdle

\* Capsule(...): lines 33-46
CapConstruct ==
    /\ fn = "Capsule"
    /\ pc = "__init__"
    /\ IF CapAccepts(args)
       THEN self' = CapFields(args) /\ pc' = "make"
       ELSE self' = self /\ pc' = "AssertionError"
    /\ UNCHANGED <<fn, args, trace, adapter, notPart>>

\* make(), lines 49-59
CapMakeCover ==
    /\ fn = "Capsule"
    /\ pc = "make"
    /\ Step(CapCover(self), "handle")
    /\ UNCHANGED <<fn, args, self, adapter, notPart>>

\* make(), lines 61-69
CapMakeHandle ==
    /\ fn = "Capsule"
    /\ pc = "handle"
    /\ Step(CapHandle(self), "knurl")
    /\ UNCHANGED <<fn, args, self, adapter, notPart>>

\* make(), lines 71-137
CapMakeKnurlThreads ==
    /\ fn = "Capsule"
    /\ pc = "knurl"
    /\ Step(CapKnurlThreads(self), "done")
    /\ UNCHANGED <<fn, args, self, adapter, notPart>>

-----------------------------------------------------------------------------
(* Adapter, src/stash_adapter.py lines 24-158.                             *)
(*                                                                         *)
(* adapter is the module-level name of line 157, which make reads in lines *)
(* 120-127: [alias |-> TRUE] when it is bound to the object make runs on   *)
(* (lines 157-158), and otherwise the fields of the object of line 157,    *)
(* whose make has run in line 158.                                         *)

\* line 53
AdPitch == <<6, 1>>

\* lines 49-51 divide by 8 * dent
AdConstructRaises(kw) == kw.dent = Rat(0)

\* lines 44-55: the fields of the object
AdFields(kw) ==
    [outerDiameter |-> kw.outerDiameter,
     wallThickness |-> kw.wallThickness,
     height |-> kw.height,
     dent |-> kw.dent,
     threadDiameter |-> RSub(kw.outerDiameter, RMul(<<3, 2>>, kw.wallThickness)),
     dent_radius |-> RDiv(RAdd(RMul(kw.outerDiameter, kw.outerDiameter),
                               RMul(Rat(4), RMul(kw.dent, kw.dent))),
                          RMul(Rat(8), kw.dent)),
     containerWallThickness |-> kw.containerWallThickness,
     pitch |-> AdPitch,
     threadClearance |-> kw.threadClearance,
     knurled |-> kw.knurled]

\* lines 58-83: the container
AdContainer(o) ==
    Then(Did(<< <<"circle", RDiv(o.outerDiameter, Rat(2))>>,
                <<"circle", RAdd(RDiv(o.outerDiameter, Rat(2)), o.containerWallThickness)>>,
                <<"extrude", RMul(Rat(2), o.height)>> >>),
    Then(CallGetBottom(RAdd(o.dent, o.containerWallThickness), o.outerDiameter,
                       o.containerWallThickness),
    Then(CallGetBottom(o.dent, RSub(o.outerDiameter, o.containerWallThickness), Rat(0)),
         Did(<< <<"cut">>, <<"union">>,
                <<"fillet", RSub(RDiv(o.containerWallThickness, Rat(2)), <<1, 20>>)>> >>))))

(* lines 85-96.  thread.min_radius is the thread generator's; the model    *)
(* draws it as the fraction args.min_radius_of_dent_radius of dent_radius, *)
(* 3/5 or 4/5, for which the square root of line 95 is rational:           *)
(* 0.5 * sqrt(4 R^2 - 4 (f R)^2) = R * sqrt(1 - f^2).                      *)
AdMinRadius(o, f) == RMul(f, o.dent_radius)

SqrtOneMinusSq(f) ==
    CASE f = <<3, 5>> -> <<4, 5>>
      [] f = <<4, 5>> -> <<3, 5>>

\* lines 94-96: self.internalDent
AdInternalDent(o, f) == RSub(o.dent_radius, RMul(SqrtOneMinusSq(f), o.dent_radius))

\* lines 120-127: the object the name adapter refers to
AdGlobal(o) == IF adapter.alias THEN o ELSE adapter

\* lines 120-127: self.assembly_offsets
AdAssemblyOffsets(g) ==
    << Rat(0),
       RAdd(RAdd(RSub(g.dent, g.internalDent), RDiv(g.pitch, Rat(2))),
            g.containerWallThickness),
       RSub(RAdd(g.dent, g.containerWallThickness), g.internalDent) >>

\* lines 85-118: the threads and the internal cap, after line 94
AdInternal(o, f) ==
    Then(IsoThread(RSub(o.threadDiameter, RDiv(o.threadClearance, Rat(2))),
                   o.pitch, o.height),
    Then(Did(<< <<"circle", AdMinRadius(o, f)>>,
                <<"extrude", RAdd(o.height, Rat(3))>>,
                <<"hole", RSub(RMul(Rat(2), AdMinRadius(o, f)), Rat(4)),
                  RSub(RSub(RAdd(o.height, Rat(3)), o.internalDent), Rat(2))>>,
                <<"union">> >>),
    Then(CallGetBottom(o.internalDent, RMul(Rat(2), AdMinRadius(o, f)), Rat(0)),
    Then(Did(<< <<"cut">> >>),
         IsoThread(RAdd(o.threadDiameter, RDiv(o.threadClearance, Rat(2))),
                   o.pitch, o.height)))))

\* lines 129-154: the external cap, after line 120
AdExternal(o) ==
    Then(Did(<< <<"workplane", RNeg(o.assembly_offsets[2])>>,
                <<"circle", RDiv(o.outerDiameter, Rat(2))>>,
                <<"circle", RDiv(o.threadDiameter, Rat(2))>>,
                <<"extrude", RAdd(RAdd(o.height, o.assembly_offsets[2]), Rat(10))>>,
                <<"chamfer", Rat(8), RSub(o.wallThickness, Rat(1))>>,
                <<"translate", RNeg(o.assembly_offsets[2])>>,
                <<"cut">>, <<"union">> >>),
         IF o.knurled
         THEN CallKnurl(o.height, RDiv(o.outerDiameter, Rat(2)), 90,
                        RDiv(o.wallThickness, Rat(4)), 40, 36)
         ELSE Did(<<>>))

\* The arguments the model draws for the constructor, with the fraction
\* min_radius / dent_radius of the thread.
AdArgs ==
    [outerDiameter : {<<62, 1>>},
     wallThickness : {<<5, 2>>},
     height : {<<25, 1>>},
     dent : {<<0, 1>>, <<11, 1>>, <<20, 1>>},
     containerWallThickness : {<<1, 5>>, <<1, 2>>},
     threadClearance : {<<4, 5>>},
     knurled : BOOLEAN,
     min_radius_of_dent_radius : {<<3, 5>>, <<4, 5>>}]

\* What the name adapter is bound to when make runs: the object itself, or
\* the Adapter() of line 157 after its make, with dent_radius = 541 / 11.
AdBindings ==
    {[alias |-> TRUE]} \cup
    [alias : {FALSE}, dent : {<<11, 1>>},
     internalDent : {<<541, 55>>, <<1082, 55>>},
     pitch : {AdPitch}, containerWallThickness : {<<1, 5>>}]

AdInit ==
    /\ fn = "Adapter"
    /\ pc = "__init__"
    /\ args \in AdArgs
    /\ self = None
    /\ trace = <<>>
    /\ adapter \in AdBindings
    /\ PartOthersIdle

\* Adapter(...): lines 44-55
AdConstruct ==
    /\ fn = "Adapter"
    /\ pc = "__init__"
    /\ IF AdConstructRaises(args)
       THEN self' = self /\ pc' = "ZeroDivisionError"
       ELSE self' = AdFields(args) /\ pc' = "make"
    /\ UNCHANGED <<fn, args, trace, adapter, notPart>>

\* make(), lines 58-83
AdMakeContainer ==
    /\ fn = "Adapter"
    /\ pc = "make"
    /\ Step(AdContainer(self), "internal")
    /\ UNCHANGED <<fn, args, self, adapter, notPart>>

\* make(), lines 85-118: line 94 sets self.internalDent
AdMakeInternal ==
    /\ fn = "Adapter"
    /\ pc = "internal"
    /\ self' = [k \in DOMAIN self \cup {"internalDent"} |->
                  IF k = "internalDent"
                  THEN AdInternalDent(self, args.min_radius_of_dent_radius)
                  ELSE self[k]]
    /\ Step(AdInternal(self', args.min_radius_of_dent_radius), "external")
    /\ UNCHANGED <<fn, args, adapter, notPart>>

\* make(), lines 120-154: line 120 sets self.assembly_offsets
AdMakeExternal ==
    /\ fn = "Adapter"
    /\ pc = "external"
    /\ self' = [k \in DOMAIN self \cup {"assembly_offsets"} |->
                  IF k = "assembly_offsets"
                  THEN AdAssemblyOffsets(AdGlobal(self))
                  ELSE self[k]]
    /\ Step(AdExternal(self'), "done")
    /\ UNCHANGED <<fn, args, adapter, notPart>>

-----------------------------------------------------------------------------
(* Enclosure, src/enclosure.py lines 99-316.                               *)

\* lines 130-131: the assertions of the constructor
EnAccepts(kw) ==
    /\ ~RLe(kw.innerHeight, RAdd(kw.pcbStandoffsHeight, kw.pcbThickness))
    /\ RLe(Rat(1), kw.wallThickness)

\* lines 133-146: the fields of the object
EnFields(kw) ==
    [k \in DOMAIN kw \cup {"connectors"} |->
        IF k = "connectors" THEN <<>> ELSE kw[k]]

\* lines 189-190: the box of the sides, the outline of lines 149-159
\* widened by 0.5 and by the wall on both sides
BOX_H(o) == RAdd(RAdd(o.innerDepth, Rat(1)), RMul(Rat(2), o.wallThickness))

\* lines 253-271: the two latch holes of latch i
en_latch_holes(o) ==
    LET la == RDiv(BOX_H(o), Rat(o.numLatches))
        xo(i) == RSub(RDiv(RSub(BOX_H(o), la), Rat(2)), RMul(la, Rat(i)))
        yo == RSub(RDiv(o.innerHeight, Rat(2)), Rat(5))
    IN  [k \in 1..(2 * o.numLatches) |->
            <<"cut_connector", IF k % 2 = 1 THEN ">Y" ELSE "<Y", "rect",
              xo((k - 1) \div 2), yo, o.wallThickness>>]

\* lines 273-281: the holes of the connectors
en_connector_holes(o) ==
    [k \in 1..Len(o.connectors) |->
        LET c == o.connectors[k] IN
        <<"cut_connector", c[1], c[2], c[3],
          RSub(c[4], RDiv(o.innerHeight, Rat(2))),
          IF c[5] # None /\ c[5] # Rat(0) THEN c[5] ELSE o.wallThickness>>]

\* lines 148-299
en_make(o) ==
    Then(Did(<< <<"rect", o.innerDepth, o.innerWidth>>,
                <<"offset", <<1, 2>>>>, <<"offset", o.wallThickness>>,
                <<"extrude", o.pcbThickness>>,
                <<"extrude", o.innerHeight>>, <<"cutThruAll">>,
                <<"extrude", o.wallThickness>>,
                <<"cylinder", o.pcbStandoffsHeight>>, <<"union">> >>),
    Then(IF o.numLatches = 0 THEN Raise("ZeroDivisionError") ELSE Did(<<>>),
    Then(Did(en_latch_holes(o)),
    Then(Did(en_connector_holes(o)),
         Did(<< <<"translate", RAdd(o.innerHeight, o.wallThickness)>>,
                <<"latch", o.numLatches>>,
                <<"translate", o.wallThickness>>, <<"union">> >>)))))

\* The arguments the model draws for the constructor.
EnArgs ==
    [innerWidth : {<<45, 1>>},
     innerDepth : {<<3999, 100>>},
     innerHeight : {<<4, 1>>, <<18, 1>>},
     wallThickness : {<<1, 2>>, <<3, 2>>},
     pcbHolesWidth : {<<40, 1>>},
     pcbHolesDepth : {<<3499, 100>>},
     pcbThickness : {<<3, 2>>},
     pcbHolesDiameter : {<<5, 2>>},
     pcbOffset : {<< <<0, 1>>, <<0, 1>> >>},
     pcbStandoffsHeight : {<<3, 1>>},
     rubberFeetDiam : {<<10, 1>>},
     latchWidth : {<<6, 1>>},
     numLatches : {0, 2}]

\* The lists the model draws for add_connectors: connectors of lines
\* 321-373 as <<side, shape, x, y, depth>>.
EnConnectors ==
    LET usb == <<"<X", "slot", <<-25, 2>>, <<25, 4>>, <<1, 1>>>>
        leds == <<"<X", "slot", <<-2, 1>>, <<5, 1>>, None>>
    IN  {<<>>, <<usb>>, <<usb, leds>>}

EnInit ==
    /\ fn = "Enclosure"
    /\ pc = "__init__"
    /\ args \in EnArgs
    /\ self = None
    /\ trace = <<>>
    /\ adapter = None
    /\ PartOthersIdle

\* Enclosure(...): lines 130-146
EnConstruct ==
    /\ fn = "Enclosure"
    /\ pc = "__init__"
    /\ IF EnAccepts(args)
       THEN self' = EnFields(args) /\ pc' = "make"
       ELSE self' = self /\ pc' = "AssertionError"
    /\ UNCHANGED <<fn, args, trace, adapter, notPart>>

\* add_connectors(connectors): lines 301-302
add_connectors ==
    /\ fn = "Enclosure"
    /\ pc = "make"
    /\ \E connectors \in EnConnectors :
          self' = [self EXCEPT !.connectors = connectors]
    /\ UNCHANGED <<fn, pc, args, trace, adapter, notPart>>

\* make(): lines 148-299
EnMake ==
    /\ fn = "Enclosure"
    /\ pc = "make"
    /\ Step(en_make(self), "done")
    /\ UNCHANGED <<fn, args, self, adapter, notPart>>

-----------------------------------------------------------------------------
(* create_stls, src/screw_cap_container.py lines 162-199.                  *)
(*                                                                         *)
(* files is the content of the directory stl.  x and y are the indices of  *)
(* the two loops, from 0 as enumerate gives them; self is config.  The     *)
(* solids make() returns are kept as the config they are built from.  The  *)
(* counter i and the total n only feed print.                              *)

\* line 163: ds = list(range(15, 105, 5))
ds == [k \in 1..18 |-> 15 + 5 * (k - 1)]

\* line 164: wt = [1.5 if d < 50 else 2 for d in ds]
wt == [k \in 1..18 |-> IF ds[k] < 50 THEN <<3, 2>> ELSE <<2, 1>>]

\* line 165: hs = [15] + list(range(20, 110, 10))
hs == [k \in 1..10 |-> IF k = 1 THEN 15 ELSE 20 + 10 * (k - 2)]

\* line 166: chs = [h / 3 if h < 50 else 10 for h in hs]
chs == [k \in 1..10 |-> IF hs[k] < 50 THEN RNorm(hs[k], 3) ELSE <<10, 1>>]

(* lines 175-176: os.path.join("stl", "container_{}x{}_{}.stl".format(d,   *)
(* h, t)), as the sequence of the pieces of the string: the integers d and *)
(* h print as their digits, t prints as "1.5" or "2".                      *)
out_path(xx, yy) ==
    <<"stl", "container_", ds[xx + 1], "x", hs[yy + 1], "_",
      IF wt[xx + 1] = <<3, 2>> THEN "1.5" ELSE "2", ".stl">>

\* line 177: os.path.exists(out_path)
path_exists_never(path) == FALSE
path_exists(path) == path \in files

\* lines 178-185: the arguments of ScrewCapContainer(...), with the
\* defaults of lines 41-42
stl_kwargs(xx, yy) ==
    [innerDiameter |-> Rat(ds[xx + 1]),
     wallThickness |-> wt[xx + 1],
     innerHeight |-> Rat(hs[yy + 1]),
     capHeight |-> chs[yy + 1],
     dent |-> Rat(0),
     threadClearance |-> <<3, 5>>,
     turns |-> 3,
     knurledCap |-> TRUE]

\* line 187 with lines 65-159: config.make()
stl_make(o) == Then(ScBody(o), Then(ScThreads(o), ScKnurl(o)))

\* The k-th of the files that can exist before the first call, spread over
\* the grid.
stl_candidate(k) == out_path((7 * k) % 18, (3 * k) % 10)

StlInit ==
    /\ fn = "create_stls"
    /\ pc = "loop"
    /\ files \in SUBSET {stl_candidate(k) : k \in 1..MaxFiles}
    /\ all = <<>>
    /\ stl_pos = <<>>
    /\ runs = 0
    /\ x = 0
    /\ y = 0
    /\ result = "none"
    /\ self = None
    /\ trace = <<>>
    /\ HexIdle /\ mesh_points = <<>> /\ MeshIdle /\ SlotIdle
    /\ args = None /\ adapter = None

\* lines 177 and 196-197: the file exists, nothing is built
StlSkip ==
    /\ fn = "create_stls"
    /\ pc = "loop"
    /\ x < Len(ds) /\ y < Len(hs)
    /\ path_exists(out_path(x, y))
    /\ y' = y + 1
    /\ UNCHANGED <<fn, pc, x, result, self, trace, stlVars, notStl>>

\* lines 177-195: the file does not exist: build the container, add it to
\* the lists and export it
StlBuild ==
    /\ fn = "create_stls"
    /\ pc = "loop"
    /\ x < Len(ds) /\ y < Len(hs)
    /\ ~path_exists(out_path(x, y))
    /\ IF ~ScAccepts(stl_kwargs(x, y))
       THEN pc' = "AssertionError"
            /\ UNCHANGED <<y, self, trace, files, all, stl_pos>>
       ELSE /\ self' = ScFields(stl_kwargs(x, y))
            /\ IF stl_make(self').raised # ""
               THEN pc' = stl_make(self').raised
                    /\ UNCHANGED <<y, trace, files, all, stl_pos>>
               ELSE /\ all' = Append(all, self')
                    /\ stl_pos' = Append(stl_pos,
                           <<x, y, self'.innerDiameter, self'.capOffset>>)
                    /\ trace' = Append(trace, <<"export", out_path(x, y)>>)
                    /\ files' = files \cup {out_path(x, y)}
                    /\ y' = y + 1
                    /\ pc' = pc
    /\ UNCHANGED <<fn, x, result, runs, notStl>>

\* line 174 is exhausted: line 173 takes the next diameter
StlNextDiameter ==
    /\ fn = "create_stls"
    /\ pc = "loop"
    /\ x < Len(ds) /\ y >= Len(hs)
    /\ x' = x + 1
    /\ y' = 0
    /\ UNCHANGED <<fn, pc, result, self, trace, stlVars, notStl>>

\* line 199: return all, pos
StlReturn ==
    /\ fn = "create_stls"
    /\ pc = "loop"
    /\ x >= Len(ds)
    /\ result' = <<all, stl_pos>>
    /\ runs' = runs + 1
    /\ pc' = "returned"
    /\ UNCHANGED <<fn, x, y, self, trace, files, all, stl_pos, notStl>>

\* create_stls() is called again, directly after it has returned
StlCallAgain ==
    /\ fn = "create_stls"
    /\ pc = "returned"
    /\ runs < MaxRuns
    /\ pc' = "loop"
    /\ all' = <<>>
    /\ stl_pos' = <<>>
    /\ x' = 0
    /\ y' = 0
    /\ UNCHANGED <<fn, result, self, trace, files, runs, notStl>>

-----------------------------------------------------------------------------

Init ==
    \/ HexInit
    \/ MeshInit
    \/ FcdInit
    \/ SlotsInit
    \/ SlantedInit
    \/ GetBottomInit
    \/ KnurlInit
    \/ ScInit
    \/ CapInit
    \/ AdInit
    \/ EnInit
    \/ StlInit

Next ==
    \/ HexAppend
    \/ HexNextRow
    \/ HexReturn
    \/ MeshifyAppend
    \/ MeshifyNextColumn
    \/ MeshifyReturn
    \/ Meshify2Append
    \/ Meshify2NextColumn
    \/ Meshify2Return
    \/ FcdReturn
    \/ SlotsCall
    \/ SlotsNext
    \/ SlotsReturn
    \/ SlantedNext
    \/ SlantedReturn
    \/ GetBottomCall
    \/ KnurlCall
    \/ ScConstruct
    \/ ScMakeBody
    \/ ScMakeThreads
    \/ ScMakeKnurl
    \/ CapConstruct
    \/ CapMakeCover
    \/ CapMakeHandle
    \/ CapMakeKnurlThreads
    \/ AdConstruct
    \/ AdMakeContainer
    \/ AdMakeInternal
    \/ AdMakeExternal
    \/ EnConstruct
    \/ add_connectors
    \/ EnMake
    \/ StlSkip
    \/ StlBuild
    \/ StlNextDiameter
    \/ StlReturn
    \/ StlCallAgain

Spec == Init /\ [][Next]_vars

-----------------------------------------------------------------------------
(* C1: for every n >= 1 and m >= 1, hex_mesh(n, m) runs through            *)
(* rows = 2m - 1 rows and returns rows * n - floor(rows / 2) centers:      *)
(* every even-indexed row holds n centers, every odd-indexed row n - 1.    *)

\* The y coordinate shared by the centers of row yy.
hm_row_y(yy, mm) == hm_point(0, yy, 1, mm)[2]

hm_in_row(yy) == {i \in 1..Len(mesh_points) : mesh_points[i][2] = hm_row_y(yy, m)}

C1_HexCount ==
    (fn = "hex_mesh" /\ pc = "done") =>
        /\ y = m
        /\ m % 2 = 1
        /\ Len(mesh_points) = m * n - (m \div 2)
        /\ \A yy \in 0..(m - 1) :
              Cardinality(hm_in_row(yy)) = IF yy % 2 = 0 THEN n ELSE n - 1

C1_Witness ==
    /\ fn = "hex_mesh"
    /\ pc = "done"
    /\ n = 3
    /\ m = 5
    /\ Len(mesh_points) = 13

-----------------------------------------------------------------------------
(* C2: no center generated by meshify or meshify2 lies outside the         *)
(* bounding box [xmin, xmax] x [ymin, ymax] of the region, the centers of  *)
(* the odd rows (shifted by d) and meshify's 0.5 offset along y included.  *)

InBox(p) ==
    /\ bbox.xmin <= p[1] /\ p[1] <= bbox.xmax
    /\ bbox.ymin <= p[2] /\ p[2] <= bbox.ymax

C2_CentersInBox ==
    (fn \in {"meshify", "meshify2"}) =>
        \A i \in 1..Len(mesh_points) : InBox(mesh_points[i])

\* The row of the i-th center: the inner loop runs over the rows.
mf_row_of(i) == (i - 1) % mf_rows

(* C2 as amended: every center has x >= xmin and y >= ymin; the centers    *)
(* of the even rows have x <= xmax and those of the odd rows, shifted by   *)
(* d, have x < xmax + d; meshify2's centers have y <= ymax and meshify's,  *)
(* offset by 0.5, have y < ymax + 0.5.                                     *)
C2_CentersNearBox ==
    (fn \in {"meshify", "meshify2"}) =>
        \A i \in 1..Len(mesh_points) :
            LET p == mesh_points[i] IN
            /\ bbox.xmin <= p[1]
            /\ bbox.ymin <= p[2]
            /\ (mf_row_of(i) % 2 = 0) => p[1] <= bbox.xmax
            /\ (mf_row_of(i) % 2 = 1) => p[1] < bbox.xmax + d
            /\ (fn = "meshify2") => p[2] <= bbox.ymax
            /\ (fn = "meshify") => p[2] < bbox.ymax + mf_half

\* meshify2 has returned centers of which one, of an odd row, is beyond xmax.
C2_Witness ==
    /\ fn = "meshify2"
    /\ pc = "done"
    /\ Len(mesh_points) >= 4
    /\ \E i \in 1..Len(mesh_points) :
          mf_row_of(i) % 2 = 1 /\ mesh_points[i][1] > bbox.xmax

-----------------------------------------------------------------------------
(* C3: the set of centers meshify2 returns is symmetric about the center   *)
(* of the bounding box (the residual slack is split equally on both        *)
(* sides), also when the width or the height is a multiple of the pitch.   *)

\* The reflection of p in the center of the bounding box.
Mirror(p) == << bbox.xmin + bbox.xmax - p[1], bbox.ymin + bbox.ymax - p[2] >>

C3_Meshify2Symmetric ==
    (fn = "meshify2" /\ pc = "done") =>
        \A p \in Range(mesh_points) : Mirror(p) \in Range(mesh_points)

-----------------------------------------------------------------------------
(* C4: for every positive integer n and positive m,                        *)
(* find_closest_divisor(n, m) returns a divisor of n that is at least as   *)
(* close to m as every divisor of n, those below sqrt(n) included.         *)

C4_ClosestDivisor ==
    (fn = "find_closest_divisor" /\ pc = "done") =>
        /\ result \in 1..n
        /\ n % result = 0
        /\ \A k \in 1..n : (n % k = 0) => AbsDiff(m, result) <= AbsDiff(m, k)

-----------------------------------------------------------------------------
(* C5: for every slot point and slot angle inside the w x h rectangle      *)
(* centered at the origin, the two intersections gen_slot_data computes    *)
(* the chord from (ps[0] and ps[1]) both lie exactly on an edge of the     *)
(* rectangle (|x| = w/2 or |y| = h/2) within the bound of the other axis.  *)

OnRectEdge(pt) ==
    \/ RAbs(pt[1]) = RNorm(w, 2) /\ RLe(RAbs(pt[2]), RNorm(h, 2))
    \/ RAbs(pt[2]) = RNorm(h, 2) /\ RLe(RAbs(pt[1]), RNorm(w, 2))

C5_ChordEndsOnEdges ==
    (fn = "slots" /\ Len(ps) >= 2) => OnRectEdge(ps[1]) /\ OnRectEdge(ps[2])

\* slots has added the slot of a point for a given angle, one chord end on
\* a vertical edge and the other on a horizontal edge.
C5_Witness ==
    /\ fn = "slots"
    /\ a # None
    /\ Len(sk) >= 1
    /\ Len(ps) >= 2
    /\ RAbs(ps[1][1]) = RNorm(w, 2)
    /\ RAbs(ps[2][2]) = RNorm(h, 2)
    /\ ps[1] # ps[2]

-----------------------------------------------------------------------------
(* C6: in slot tiling, the length of each slot is its chord length         *)
(* multiplied by the fill ratio, and its width, derived from the spacing   *)
(* of the points, does not depend on the fill ratio; for slots and for     *)
(* slanted_slots.                                                          *)

\* The width the spacing of the points gives, squared, before any scaling.
SpacingWidthSq == IF fn = "slots" THEN gs_wd_sq ELSE ss_slot_height_sq

\* The chord of the latest point, squared.
ChordSq == Dist2(ps[1], ps[2])

RatioSq == RMul(ratio, ratio)

C6_LengthScaled ==
    (fn \in {"slots", "slanted_slots"} /\ Len(sk) >= 1 /\ Len(ps) >= 2) =>
        /\ sk[Len(sk)].w_sq = RMul(ChordSq, RatioSq)
        /\ sk[Len(sk)].h_sq = SpacingWidthSq

(* C6 as amended: the length of each slot is its chord length, which the   *)
(* fill ratio does not affect, and its width is the width derived from the *)
(* spacing of the points multiplied by the fill ratio.                     *)
C6_WidthScaled ==
    (fn \in {"slots", "slanted_slots"} /\ Len(sk) >= 1 /\ Len(ps) >= 2) =>
        /\ sk[Len(sk)].w_sq = ChordSq
        /\ sk[Len(sk)].h_sq = RMul(SpacingWidthSq, RatioSq)

\* slots has returned two or more slots built with the fill ratio 1/2.
C6_Witness ==
    /\ fn = "slots"
    /\ pc = "done"
    /\ ratio = <<1, 2>>
    /\ Len(sk) = n
    /\ n >= 2
    /\ sk[Len(sk)].h_sq # SpacingWidthSq

-----------------------------------------------------------------------------
(* C7: get_bottom(dent, diameter, height) fails with an error, before any  *)
(* geometry is built, whenever dent > diameter / 2 or dent <= 0 or         *)
(* diameter <= 0; it builds a dome only for 0 < dent <= diameter / 2.      *)

Errors == {"AssertionError", "ZeroDivisionError", "IndexError", "ValueError"}

DomeArgsValid(dent, diameter) ==
    /\ ~RLe(dent, Rat(0))
    /\ ~RLe(diameter, Rat(0))
    /\ RLe(dent, RDiv(diameter, Rat(2)))

C7_GetBottomValidates ==
    (fn = "get_bottom" /\ pc # "call" /\ ~DomeArgsValid(args.dent, args.diameter)) =>
        (pc \in Errors /\ trace = <<>>)

-----------------------------------------------------------------------------
(* C8: knurl(obj, height, radius, cut_angle, cut_depth, angle, n) fails    *)
(* with an error, before it builds the cutting tool, whenever              *)
(* cut_depth >= radius or n < 3.                                           *)

C8_KnurlValidates ==
    (fn = "knurl" /\ pc # "call"
        /\ (RLe(args.radius, args.cut_depth) \/ args.n < 3)) =>
        (pc \in Errors /\ trace = <<>>)

-----------------------------------------------------------------------------
(* C9: every caller of the dome fitter (Capsule.make,                      *)
(* ScrewCapContainer.make, Adapter.make) special-cases a zero dent: with   *)
(* the dent 0 it does not call get_bottom and builds a flat cap instead.   *)

Parts == {"ScrewCapContainer", "Capsule", "Adapter"}

\* The constructor and the first step of make, the one that builds the
\* bottom, are over.
BottomBuilt == fn \in Parts /\ pc \notin {"__init__", "make"}

CallsOf(name) == {k \in 1..Len(trace) : trace[k][1] = name}

\* With a dent of 0 the part gets past its bottom without a call of
\* get_bottom and without the division by zero a zero dent causes.
C9_ZeroDentFlat ==
    (BottomBuilt /\ args.dent = Rat(0)) =>
        /\ CallsOf("get_bottom") = {}
        /\ pc # "ZeroDivisionError"

-----------------------------------------------------------------------------
(* C10: every combination of parameters the assertions of the              *)
(* ScrewCapContainer constructor accept is buildable: after the            *)
(* constructor has returned, make() never hits a failure the parameters    *)
(* cause (a division by zero in get_center, a dome depth                   *)
(* dent - wallThickness <= 0, a thread length capHeight - wallThickness    *)
(* <= 0).                                                                  *)

C10_AcceptedIsBuildable ==
    (fn = "ScrewCapContainer" /\ self # None) =>
        /\ pc \notin Errors
        /\ \A k \in CallsOf("get_bottom") : ~RLe(trace[k][2], Rat(0))
        /\ \A k \in CallsOf("IsoThread") : ~RLe(trace[k][4], Rat(0))

-----------------------------------------------------------------------------
(* C11: for every dent in (0, diameter / 2] and shell height 0, the sphere *)
(* get_bottom fits has the radius                                          *)
(* r = -get_center((0, dent), (diameter / 2, 0)) + dent                    *)
(*   = (diameter^2 + 4 * dent^2) / (8 * dent),                             *)
(* its apex on the axis is at the height dent, its cross-section at z = 0  *)
(* has the radius diameter / 2, and at dent = diameter / 2 its radius is   *)
(* diameter / 2 (a hemisphere).                                            *)

\* get_bottom has returned: the radius of its sphere and the height of the
\* center of the sphere (trace[1] and trace[2], lines 23-24).
DomeDone == fn = "get_bottom" /\ pc = "done"
SphereRadius == trace[1][2]
SphereCenter == trace[2][2]

RSq(q) == RMul(q, q)

C11_DomeRadius ==
    (DomeDone /\ args.height = Rat(0) /\ DomeArgsValid(args.dent, args.diameter)) =>
        /\ trace[1][1] = "sphere"
        /\ SphereRadius = RDiv(RAdd(RSq(args.diameter), RMul(Rat(4), RSq(args.dent))),
                               RMul(Rat(8), args.dent))
        /\ RAdd(SphereCenter, SphereRadius) = args.dent
        /\ RSub(RSq(SphereRadius), RSq(SphereCenter)) = RSq(RDiv(args.diameter, Rat(2)))
        /\ (args.dent = RDiv(args.diameter, Rat(2))
               => SphereRadius = RDiv(args.diameter, Rat(2)))

\* get_bottom(9, 18) has returned the hemisphere of radius 9.
C11_Witness ==
    /\ DomeDone
    /\ args = [dent |-> <<9, 1>>, diameter |-> <<18, 1>>, height |-> <<0, 1>>]
    /\ SphereRadius = <<9, 1>>
    /\ SphereCenter = <<0, 1>>

-----------------------------------------------------------------------------
(* C12: get_bottom(dent, diameter, height) called with height > 0 returns  *)
(* a hollow dome: along the symmetry axis the solid occupies only the      *)
(* interval [dent - height, dent]: the outer apex is at dent and the       *)
(* thickness of the shell at the apex is height (for dent = 4,             *)
(* diameter = 18, height = 1.5: apex 4, thickness 1.5).                    *)

RMax(p, q) == IF RLe(p, q) THEN q ELSE p
RMin(p, q) == IF RLe(p, q) THEN p ELSE q

\* The part of the axis inside the solid get_bottom returns: inside the
\* sphere (lines 23-24) and inside the cylinder of the height trace[3][2]
\* centered at the height trace[4][2] (lines 27-28).
AxisLow ==
    RMax(RSub(SphereCenter, SphereRadius),
         RSub(trace[4][2], RDiv(trace[3][2], Rat(2))))
AxisHigh ==
    RMin(RAdd(SphereCenter, SphereRadius),
         RAdd(trace[4][2], RDiv(trace[3][2], Rat(2))))

\* 0 < height < dent <= diameter / 2
ShellArgs ==
    /\ DomeArgsValid(args.dent, args.diameter)
    /\ ~RLe(args.height, Rat(0))
    /\ ~RLe(args.dent, args.height)

-----------------------------------------------------------------------------
(* C13: no configuration object of a part family (Capsule,                 *)
(* ScrewCapContainer, Enclosure, Adapter) is mutated after its constructor *)
(* has returned: no step of make() or of any other method changes or adds  *)
(* a field of the object.                                                  *)

Families == Parts \cup {"Enclosure"}

C13_NoMutation ==
    [][(fn \in Families /\ self # None) => self' = self]_vars

-----------------------------------------------------------------------------
(* C14: the result of make() depends only on the object it is called on:   *)
(* Adapter.make computes the assembly offsets, and with them the cut       *)
(* positions, from the dent, pitch, containerWallThickness and             *)
(* internalDent of that object, whatever any other instance or             *)
(* module-level variable holds.                                            *)

C14_OwnOffsets ==
    (fn = "Adapter" /\ pc = "done") =>
        /\ self.assembly_offsets = AdAssemblyOffsets(self)
        /\ \E k \in 1..Len(trace) :
              trace[k] = <<"workplane", RNeg(AdAssemblyOffsets(self)[2])>>

-----------------------------------------------------------------------------
(* C15: for every call of knurl with 0 < cut_depth < radius, each of the n *)
(* wedge profiles has its innermost vertex (the apex) at exactly           *)
(* radius - cut_depth from the axis of the cylinder, so that the deepest   *)
(* point of every groove is at radius - cut_depth, and the profile is the  *)
(* same at each of the n equally spaced angular positions.                 *)

KnurlDone == fn = "knurl" /\ pc = "done"

\* The profiles of the sketch s1 (trace[2], line 54).
Profiles == trace[2][2]

DepthInRadius == ~RLe(args.cut_depth, Rat(0)) /\ ~RLe(args.radius, args.cut_depth)

ApexAtDepth ==
    /\ Len(Profiles) = args.n
    /\ \A k \in 1..Len(Profiles) :
          /\ Profiles[k].apex = RSub(args.radius, args.cut_depth)
          /\ ~RLe(RAdd(RSq(Profiles[k].base_x), Profiles[k].base_y_sq),
                  RSq(Profiles[k].apex))
          /\ Profiles[k].angle = RNorm(360 * (k - 1), args.n)
          /\ Profiles[k].apex = Profiles[1].apex
          /\ Profiles[k].base_x = Profiles[1].base_x
          /\ Profiles[k].base_y_sq = Profiles[1].base_y_sq

C15_ApexAtDepth == (KnurlDone /\ DepthInRadius) => ApexAtDepth

(* C15 as amended: for every call of knurl with 0 < cut_depth < radius and *)
(* without a point_radius (None or 0), each of the n wedge profiles has    *)
(* its innermost vertex at exactly radius - cut_depth from the axis, and   *)
(* the profile is the same at each of the n equally spaced angular         *)
(* positions; with a point_radius the apex is rounded off and the deepest  *)
(* point of the groove lies farther out than radius - cut_depth.           *)
C15_SharpApexAtDepth ==
    (KnurlDone /\ DepthInRadius) =>
        IF args.point_radius \in {None, Rat(0)}
        THEN ApexAtDepth
        ELSE \A k \in 1..Len(Profiles) :
                ~RLe(Profiles[k].apex, RSub(args.radius, args.cut_depth))

\* knurl(obj, 60, 9, 90, 0.1875, 180, 20) has returned: 20 profiles, the
\* last at 342 degrees, each with its apex at 9 - 0.1875.
C15_Witness ==
    /\ KnurlDone
    /\ args.radius = <<9, 1>> /\ args.cut_depth = <<3, 16>>
    /\ args.cut_angle = 90 /\ args.n = 20 /\ args.point_radius = None
    /\ Len(Profiles) = 20
    /\ Profiles[20].angle = <<342, 1>>
    /\ Profiles[20].apex = <<141, 16>>

-----------------------------------------------------------------------------
(* C16: for every n >= 1 and m >= 1 the set of centers hex_mesh(n, m)      *)
(* produces is centered on the origin: it is invariant under               *)
(* (x, y) -> (-x, -y), the x coordinates of every row are symmetric about  *)
(* 0 and the y coordinates of the rows are symmetric about 0, and the odd  *)
(* rows are shifted by dx, half of the pitch 2 * dx within a row.          *)

Centers == Range(mesh_points)

\* The index of the row of the center p: y = (yy - (m - 1) / 2) * dy.
hm_row_of(p) == (p[2] + hm_h(m) \div 2 - hm_dy \div 2) \div hm_dy

C16_HexCentered ==
    (fn = "hex_mesh" /\ pc = "done") =>
        /\ \A p \in Centers : << -p[1], -p[2] >> \in Centers
        /\ \A p \in Centers : << -p[1], p[2] >> \in Centers
        /\ \A yy \in 0..(m - 1) : \E zz \in 0..(m - 1) :
              hm_row_y(zz, m) = -hm_row_y(yy, m)
        /\ \A i \in 1..(Len(mesh_points) - 1) :
              mesh_points[i + 1][2] = mesh_points[i][2]
                  => mesh_points[i + 1][1] - mesh_points[i][1] = 2 * hm_dx
        /\ \A p \in Centers :
              (p[1] - hm_point(0, 0, n, m)[1]) % (2 * hm_dx)
                  = IF hm_row_of(p) % 2 = 1 THEN hm_dx ELSE 0

\* hex_mesh(3, 3) has returned: the odd rows hold the centers at -dx and dx
\* and the middle row the origin.
C16_Witness ==
    /\ fn = "hex_mesh"
    /\ pc = "done"
    /\ n = 3
    /\ m = 5
    /\ << 0, 0 >> \in Centers
    /\ << -hm_dx, -hm_dy >> \in Centers
    /\ << hm_dx, hm_dy >> \in Centers

-----------------------------------------------------------------------------
(* C17: for every region w x h, slot count nh > 1, slot angle (given or    *)
(* derived) and every one of the nh slot points, gen_slot_data keeps       *)
(* exactly two intersections of the line through the point with the        *)
(* boundary, and they are distinct, so that the chord of every slot is     *)
(* longer than 0, also when the line passes through a corner of the        *)
(* rectangle or is parallel to an edge.                                    *)

\* gen_slot_data has accepted nh and width(pt) has run for a point.
WidthRan == fn = "slots" /\ n > 1 /\ pc # "call" /\ (ps # <<>> \/ pc \in Errors)

C17_TwoDistinct ==
    WidthRan =>
        /\ pc \notin Errors
        /\ Len(ps) = 2
        /\ ps[1] # ps[2]
        /\ sk[Len(sk)].w_sq # Rat(0)

-----------------------------------------------------------------------------
(* C18: for every ScrewCapContainer the constructor accepts with           *)
(* knurledCap enabled, the count make() passes to knurl,                   *)
(* 360 // int(find_closest_divisor(360, angle)) with                       *)
(* angle = 2 * asin(8 / innerDiameter) in degrees, is an integer >= 3 that *)
(* divides 360.                                                            *)

KnurledContainer == fn = "ScrewCapContainer" /\ self # None /\ self.knurledCap

-----------------------------------------------------------------------------
(* C19: create_stls never overwrites an existing output file: for each of  *)
(* the (diameter, height) combinations it builds and exports a container   *)
(* only if the file stl/container_<d>x<h>_<t>.stl does not exist, the      *)
(* lists it returns hold exactly the containers built by this call, and a  *)
(* second call directly after a completed one builds nothing and returns   *)
(* empty lists.                                                            *)

\* The k-th entry of all and of pos is the container of the k-th export of
\* this call, built from the arguments of its place in the grid.
StlListsAreBuilt ==
    /\ Len(all) = Len(stl_pos)
    /\ Len(all) <= Len(trace)
    /\ \A k \in 1..Len(all) :
          /\ trace[Len(trace) - Len(all) + k]
                = <<"export", out_path(stl_pos[k][1], stl_pos[k][2])>>
          /\ all[k] = ScFields(stl_kwargs(stl_pos[k][1], stl_pos[k][2]))

StlState ==
    fn = "create_stls" =>
        /\ pc \notin Errors
        /\ StlListsAreBuilt
        /\ (runs >= 1 /\ pc = "loop") => (all = <<>> /\ stl_pos = <<>>)
        /\ pc = "returned" =>
              /\ result = <<all, stl_pos>>
              /\ runs >= 2 => result = << <<>>, <<>> >>
              /\ \A xx \in 0..(Len(ds) - 1), yy \in 0..(Len(hs) - 1) :
                    out_path(xx, yy) \in files

\* A step writes a file only by an export, of a file that does not exist,
\* and removes none.
StlStep ==
    fn = "create_stls" =>
        /\ files \subseteq files'
        /\ files' # files => trace' # trace
        /\ trace' # trace =>
              /\ trace' = Append(trace, trace'[Len(trace')])
              /\ trace'[Len(trace')][1] = "export"
              /\ trace'[Len(trace')][2] \notin files
              /\ files' = files \cup {trace'[Len(trace')][2]}
              /\ Len(all') = Len(all) + 1

C19_NeverOverwrites == []StlState /\ [][StlStep]_vars

\* The second call has returned; the first found some of the files and
\* built the others.
C19_Witness ==
    /\ fn = "create_stls"
    /\ pc = "returned"
    /\ runs = 2
    /\ result = << <<>>, <<>> >>
    /\ Len(trace) > 0
    /\ Len(trace) < Len(ds) * Len(hs)
    /\ Cardinality(files) = Len(ds) * Len(hs)

=============================================================================
